---- MODULE Spec2Model ----
(***************************************************************************)
(* Model of lib/agent-core/docker-swarm/src/utils.py: deserialize and      *)
(* extract_tag_content, each executed statement by statement in a call     *)
(* frame of its own.  Texts are sequences of one-character strings.        *)
(***************************************************************************)
EXTENDS Integers, Sequences, FiniteSets, TLC

VARIABLES pc, args, frame, outcome, stdout, events, nextErr, budget, earlier, failures

vars == <<pc, args, frame, outcome, stdout, events, nextErr, budget, earlier, failures>>

(* ------------------------------ bounds -------------------------------- *)

\* Longest input text of SpecExtract, in tokens (a marker or one character).
MaxTokens == 6
\* Number of concurrent call sites.
NThreads == 2
\* Calls the sequential caller of SpecSeq makes.
MaxCalls == 3

Threads == 1..NThreads

(* ------------------------------ strings ------------------------------- *)

Newline == "\n"

\* f"<{tag}>"
OpenMarker(tag) == <<"<">> \o tag \o <<">">>

\* f"</{tag}>"
CloseMarker(tag) == <<"<", "/">> \o tag \o <<">">>

\* s[i : i + len(p)] == p, positions counted from 1
IsAt(p, s, i) ==
    /\ i >= 1
    /\ i + Len(p) - 1 <= Len(s)
    /\ \A k \in 1..Len(p) : s[i + k - 1] = p[k]

\* Python's  p in s
Contains(p, s) == \E i \in 1..(Len(s) + 1) : IsAt(p, s, i)

\* Optional[str]
None == [some |-> FALSE, val |-> <<>>]
Some(x) == [some |-> TRUE, val |-> x]

(* ------------------------- extract_tag_content ------------------------ *)

\* str is immutable: a concatenation is a new object bound to the local
\* name, and the caller's object stays as it was.
RebindInPlace(callerText, newText) == [caller |-> newText, local |-> newText]
Rebind(callerText, newText) == [caller |-> callerText, local |-> newText]

PrependDropped(llm_response, tag) == llm_response
PrependAtEnd(llm_response, tag) == llm_response \o OpenMarker(tag)
PrependOpen(llm_response, tag) == OpenMarker(tag) \o llm_response

AppendOpenInstead(llm_response, tag) == llm_response \o OpenMarker(tag)
AppendClose(llm_response, tag) == llm_response \o CloseMarker(tag)

\* re.DOTALL is passed to re.findall
NoDOTALL == FALSE
DOTALL == TRUE

\* what "." matches
DotMatches(c) == DOTALL \/ c # Newline

\* The lazy group (.*?) entered at position q: it takes no character if the
\* closing literal matches at q, and otherwise one more character that "."
\* matches.  The result is the position of the closing literal, 0 on failure.
RECURSIVE LazyGroup(_, _, _)
LazyGroup(close, s, q) ==
    IF IsAt(close, s, q) THEN q
    ELSE IF q <= Len(s) /\ DotMatches(s[q]) THEN LazyGroup(close, s, q + 1)
    ELSE 0

\* One attempt of the pattern <tag>(.*?)</tag> at position pos.
MatchAt(tag, s, pos) ==
    IF ~IsAt(OpenMarker(tag), s, pos)
    THEN [ok |-> FALSE, group |-> <<>>, end |-> pos]
    ELSE LET q == pos + Len(OpenMarker(tag))
             e == LazyGroup(CloseMarker(tag), s, q)
         IN  IF e = 0
             THEN [ok |-> FALSE, group |-> <<>>, end |-> pos]
             ELSE [ok |-> TRUE, group |-> SubSeq(s, q, e - 1),
                   end |-> e + Len(CloseMarker(tag))]

\* re.findall: the scan restarts after a match and one character further
\* after a failed attempt; with one group it lists the group's text.
RECURSIVE FindAllFrom(_, _, _)
FindAllFrom(tag, s, pos) ==
    IF pos > Len(s) THEN <<>>
    ELSE LET m == MatchAt(tag, s, pos)
         IN  IF m.ok THEN <<m.group>> \o FindAllFrom(tag, s, m.end)
             ELSE FindAllFrom(tag, s, pos + 1)

FindAll(tag, s) == FindAllFrom(tag, s, 1)

\* [elem for elem in matches if elem]
FilterKeepsAll(matches) == matches
FilterEmpty(matches) == SelectSeq(matches, LAMBDA elem : elem # <<>>)

\* matches[-1] if matches else None
SelectFirst(matches) == IF matches # <<>> THEN Some(matches[1]) ELSE None
SelectLast(matches) == IF matches # <<>> THEN Some(matches[Len(matches)]) ELSE None

\* The whole function, run without interruption.
extract_tag_content(llm_response, tag) ==
    LET r1 == IF ~Contains(OpenMarker(tag), llm_response)
              THEN PrependOpen(llm_response, tag) ELSE llm_response
        r2 == IF ~Contains(CloseMarker(tag), r1)
              THEN AppendClose(r1, tag) ELSE r1
    IN  SelectLast(FilterEmpty(FindAll(tag, r2)))

(* ------------------------------ deserialize --------------------------- *)

NoErr == [id |-> 0, kind |-> "none"]
NoObject == [cls |-> "none", a |-> "unset"]

\* The JSON documents the callers pass, and the parse of each.
JsonValues == {"not json", "{}", "{\"a\": 1}", "{\"a\": \"x\"}"}

json_loads(value) ==
    CASE value = "{}"           -> [ok |-> TRUE, a |-> [type |-> "absent", v |-> ""]]
      [] value = "{\"a\": 1}"     -> [ok |-> TRUE, a |-> [type |-> "int", v |-> "1"]]
      [] value = "{\"a\": \"x\"}" -> [ok |-> TRUE, a |-> [type |-> "str", v |-> "x"]]
      [] OTHER                  -> [ok |-> FALSE, a |-> [type |-> "absent", v |-> ""]]

\* The schemas: a model without fields, and a model with a required int a.
ObjectTypes == {"AnySchema", "SchemaWithIntField"}

\* object_type.model_validate_json(value): the object, or the kind of the
\* ValidationError it raises.
model_validate_json(object_type, value) ==
    LET doc == json_loads(value)
    IN  IF ~doc.ok
        THEN [ok |-> FALSE, obj |-> NoObject, kind |-> "json_invalid"]
        ELSE IF object_type = "AnySchema"
        THEN [ok |-> TRUE, obj |-> [cls |-> object_type, a |-> "unset"], kind |-> "none"]
        ELSE IF doc.a.type = "absent"
        THEN [ok |-> FALSE, obj |-> NoObject, kind |-> "missing"]
        ELSE IF doc.a.type # "int"
        THEN [ok |-> FALSE, obj |-> NoObject, kind |-> "int_parsing"]
        ELSE [ok |-> TRUE, obj |-> [cls |-> object_type, a |-> doc.a.v], kind |-> "none"]

\* try / except ValidationError: the statements left to run after the
\* validator returned or raised.
HandlerAsFinally(failed) == IF failed THEN <<"print", "raise">> ELSE <<"print", "return">>
Handler(failed) == IF failed THEN <<"print", "raise">> ELSE <<"return">>

\* print(f"Validation error: {err}")
Diagnostic(err) == [text |-> "Validation error: ", err |-> err]

\* raise err
RaisedAnew(err) == [err EXCEPT !.id = err.id + 1]
Raised(err) == err

(* ------------------------------ call frames --------------------------- *)

\* Every call has a frame of its own for its parameters and locals.
SharedFrame(th) == 1
FrameOf(th) == th

NoArgs == [fn |-> "none", llm_response |-> <<>>, text0 |-> <<>>, tag |-> <<>>,
           value |-> "", object_type |-> "", overlapped |-> FALSE]
EmptyFrame == [llm_response |-> <<>>, tag |-> <<>>, matches |-> <<>>,
               value |-> "", object_type |-> "",
               parsed_object |-> NoObject, err |-> NoErr]
Pending == [kind |-> "pending", opt |-> None, obj |-> NoObject, err |-> NoErr]
NoCall == [set |-> FALSE, args |-> NoArgs, outcome |-> Pending]

ExtractArgs(text, tag) ==
    [fn |-> "extract_tag_content", llm_response |-> text, text0 |-> text,
     tag |-> tag, value |-> "", object_type |-> "", overlapped |-> FALSE]
DeserializeArgs(value, object_type) ==
    [fn |-> "deserialize", llm_response |-> <<>>, text0 |-> <<>>, tag |-> <<>>,
     value |-> value, object_type |-> object_type, overlapped |-> FALSE]

\* The frame a call starts with: its parameters bound to the arguments.
Entered(a) ==
    [EmptyFrame EXCEPT !.llm_response = a.llm_response, !.tag = a.tag,
                       !.value = a.value, !.object_type = a.object_type]

\* The first statement of each function, and those that follow in order.
Body(fn) ==
    IF fn = "deserialize" THEN <<"validate">>
    ELSE <<"check_open", "check_close", "findall", "filter", "select">>

\* An outcome without the identity of the exception object.
Norm(o) == [o EXCEPT !.err.id = 0]

\* The first call that completed, kept to compare later calls with.
Remember(a, o) == IF earlier.set THEN earlier
                  ELSE [set |-> TRUE,
                        args |-> [a EXCEPT !.llm_response = a.text0,
                                           !.overlapped = FALSE],
                        outcome |-> Norm(o)]

At(th, label) == pc[th] # <<>> /\ Head(pc[th]) = label

(* ------------------------------ inputs -------------------------------- *)

Tags == {<<"t">>}

\* A text is a sequence of tokens: a marker of the tag, or one character.
Tokens(tag) == {OpenMarker(tag), CloseMarker(tag),
                <<"t">>, <<Newline>>, <<"<">>}

RECURSIVE Flatten(_)
Flatten(toks) == IF toks = <<>> THEN <<>> ELSE Head(toks) \o Flatten(Tail(toks))

Texts(tag, n) == {Flatten(ts) : ts \in UNION {[1..k -> Tokens(tag)] : k \in 0..n}}

\* The texts of the interleaved and of the repeated calls.
CallTexts(tag) == {<<>>, <<"t">>, OpenMarker(tag) \o <<"t">>,
                   <<"t">> \o CloseMarker(tag)}

(* ------------------------------ actions ------------------------------- *)

Call(th) ==
    /\ pc[th] = <<>>
    /\ budget[th] > 0
    /\ \E a \in UNION {{ExtractArgs(text, tag) : text \in CallTexts(tag)} : tag \in Tags}
             \cup {DeserializeArgs(v, ot) : v \in JsonValues, ot \in ObjectTypes} :
          /\ args' = [args EXCEPT ![th] =
                        [a EXCEPT !.overlapped = \E u \in Threads : pc[u] # <<>>]]
          /\ frame' = [frame EXCEPT ![FrameOf(th)] = Entered(a)]
          /\ pc' = [pc EXCEPT ![th] = Body(a.fn)]
    /\ budget' = [budget EXCEPT ![th] = @ - 1]
    /\ outcome' = [outcome EXCEPT ![th] = Pending]
    /\ events' = [events EXCEPT ![th] = <<>>]
    /\ UNCHANGED <<stdout, nextErr, earlier, failures>>

\* if f"<{tag}>" not in llm_response:
CheckOpen(th) ==
    /\ At(th, "check_open")
    /\ LET f == frame[FrameOf(th)]
       IN  pc' = [pc EXCEPT ![th] =
                    IF ~Contains(OpenMarker(f.tag), f.llm_response)
                    THEN <<"prepend">> \o Tail(@) ELSE Tail(@)]
    /\ UNCHANGED <<args, frame, outcome, stdout, events, nextErr, budget, earlier, failures>>

\* llm_response = f"<{tag}>" + llm_response
Prepend(th) ==
    /\ At(th, "prepend")
    /\ LET f == frame[FrameOf(th)]
           r == Rebind(args[th].llm_response, PrependOpen(f.llm_response, f.tag))
       IN  /\ frame' = [frame EXCEPT ![FrameOf(th)].llm_response = r.local]
           /\ args' = [args EXCEPT ![th].llm_response = r.caller]
    /\ pc' = [pc EXCEPT ![th] = Tail(@)]
    /\ UNCHANGED <<outcome, stdout, events, nextErr, budget, earlier, failures>>

\* if f"</{tag}>" not in llm_response:
CheckClose(th) ==
    /\ At(th, "check_close")
    /\ LET f == frame[FrameOf(th)]
       IN  pc' = [pc EXCEPT ![th] =
                    IF ~Contains(CloseMarker(f.tag), f.llm_response)
                    THEN <<"append">> \o Tail(@) ELSE Tail(@)]
    /\ UNCHANGED <<args, frame, outcome, stdout, events, nextErr, budget, earlier, failures>>

\* llm_response = llm_response + f"</{tag}>"
AppendStep(th) ==
    /\ At(th, "append")
    /\ LET f == frame[FrameOf(th)]
           r == Rebind(args[th].llm_response, AppendClose(f.llm_response, f.tag))
       IN  /\ frame' = [frame EXCEPT ![FrameOf(th)].llm_response = r.local]
           /\ args' = [args EXCEPT ![th].llm_response = r.caller]
    /\ pc' = [pc EXCEPT ![th] = Tail(@)]
    /\ UNCHANGED <<outcome, stdout, events, nextErr, budget, earlier, failures>>

\* matches = re.findall(pattern, llm_response, re.DOTALL)
FindAllStep(th) ==
    /\ At(th, "findall")
    /\ LET f == frame[FrameOf(th)]
       IN  frame' = [frame EXCEPT ![FrameOf(th)].matches = FindAll(f.tag, f.llm_response)]
    /\ pc' = [pc EXCEPT ![th] = Tail(@)]
    /\ UNCHANGED <<args, outcome, stdout, events, nextErr, budget, earlier, failures>>

\* matches = [elem for elem in matches if elem]
FilterStep(th) ==
    /\ At(th, "filter")
    /\ frame' = [frame EXCEPT ![FrameOf(th)].matches = FilterEmpty(@)]
    /\ pc' = [pc EXCEPT ![th] = Tail(@)]
    /\ UNCHANGED <<args, outcome, stdout, events, nextErr, budget, earlier, failures>>

\* return matches[-1] if matches else None
SelectStep(th) ==
    /\ At(th, "select")
    /\ LET o == [Pending EXCEPT !.kind = "return",
                                !.opt = SelectLast(frame[FrameOf(th)].matches)]
       IN  /\ outcome' = [outcome EXCEPT ![th] = o]
           /\ earlier' = Remember(args[th], o)
    /\ pc' = [pc EXCEPT ![th] = Tail(@)]
    /\ UNCHANGED <<args, frame, stdout, events, nextErr, budget, failures>>

\* parsed_object = object_type.model_validate_json(value)
Validate(th) ==
    /\ At(th, "validate")
    /\ LET f == frame[FrameOf(th)]
           r == model_validate_json(f.object_type, f.value)
       IN  \/ /\ r.ok
              /\ frame' = [frame EXCEPT ![FrameOf(th)].parsed_object = r.obj]
              /\ pc' = [pc EXCEPT ![th] = Handler(FALSE) \o Tail(@)]
              /\ UNCHANGED <<events, nextErr>>
           \/ /\ ~r.ok
              /\ frame' = [frame EXCEPT ![FrameOf(th)].err =
                                           [id |-> nextErr, kind |-> r.kind]]
              /\ events' = [events EXCEPT ![th] =
                              Append(@, [ev |-> "validator_raised", id |-> nextErr])]
              /\ nextErr' = nextErr + 1
              /\ pc' = [pc EXCEPT ![th] = Handler(TRUE) \o Tail(@)]
    /\ UNCHANGED <<args, outcome, stdout, budget, earlier, failures>>

\* print(f"Validation error: {err}")
PrintStep(th) ==
    /\ At(th, "print")
    /\ LET f == frame[FrameOf(th)]
       IN  /\ stdout' = Append(stdout, Diagnostic(f.err))
           /\ events' = [events EXCEPT ![th] =
                           Append(@, [ev |-> "diagnostic", id |-> f.err.id])]
    /\ pc' = [pc EXCEPT ![th] = Tail(@)]
    /\ UNCHANGED <<args, frame, outcome, nextErr, budget, earlier, failures>>

\* raise err
RaiseStep(th) ==
    /\ At(th, "raise")
    /\ LET e == Raised(frame[FrameOf(th)].err)
           o == [Pending EXCEPT !.kind = "raise", !.err = e]
       IN  /\ outcome' = [outcome EXCEPT ![th] = o]
           /\ events' = [events EXCEPT ![th] =
                           Append(@, [ev |-> "propagated", id |-> e.id])]
           /\ earlier' = Remember(args[th], o)
    /\ failures' = failures + 1
    /\ pc' = [pc EXCEPT ![th] = Tail(@)]
    /\ UNCHANGED <<args, frame, stdout, nextErr, budget>>

\* return parsed_object
ReturnStep(th) ==
    /\ At(th, "return")
    /\ LET o == [Pending EXCEPT !.kind = "return",
                                !.obj = frame[FrameOf(th)].parsed_object]
       IN  /\ outcome' = [outcome EXCEPT ![th] = o]
           /\ earlier' = Remember(args[th], o)
    /\ pc' = [pc EXCEPT ![th] = Tail(@)]
    /\ UNCHANGED <<args, frame, stdout, events, nextErr, budget, failures>>

(* --------------------------- specifications --------------------------- *)

Quiet(b) ==
    /\ pc = [th \in Threads |-> <<>>]
    /\ args = [th \in Threads |-> NoArgs]
    /\ frame = [f \in Threads |-> EmptyFrame]
    /\ outcome = [th \in Threads |-> Pending]
    /\ stdout = <<>>
    /\ events = [th \in Threads |-> <<>>]
    /\ nextErr = 1
    /\ budget = b
    /\ earlier = NoCall
    /\ failures = 0

ExtractStep(th) ==
    \/ CheckOpen(th)
    \/ Prepend(th)
    \/ CheckClose(th)
    \/ AppendStep(th)
    \/ FindAllStep(th)
    \/ FilterStep(th)
    \/ SelectStep(th)

DeserializeStep(th) ==
    \/ Validate(th)
    \/ PrintStep(th)
    \/ RaiseStep(th)
    \/ ReturnStep(th)

\* One call of extract_tag_content on any text of at most MaxTokens tokens.
InitExtract ==
    \E tag \in Tags : \E text \in Texts(tag, MaxTokens) :
        /\ pc = [th \in Threads |-> IF th = 1 THEN Body("extract_tag_content") ELSE <<>>]
        /\ args = [th \in Threads |-> IF th = 1 THEN ExtractArgs(text, tag) ELSE NoArgs]
        /\ frame = [f \in Threads |-> IF f = FrameOf(1)
                                      THEN Entered(ExtractArgs(text, tag)) ELSE EmptyFrame]
        /\ outcome = [th \in Threads |-> Pending]
        /\ stdout = <<>>
        /\ events = [th \in Threads |-> <<>>]
        /\ nextErr = 1
        /\ budget = [th \in Threads |-> 0]
        /\ earlier = NoCall
    /\ failures = 0

NextExtract == ExtractStep(1)

SpecExtract == InitExtract /\ [][NextExtract]_vars

\* One caller making MaxCalls calls, one after the other.
InitSeq == Quiet([th \in Threads |-> IF th = 1 THEN MaxCalls ELSE 0])

NextSeq == Call(1) \/ ExtractStep(1) \/ DeserializeStep(1)

SpecSeq == InitSeq /\ [][NextSeq]_vars

\* NThreads call sites, each making one call, their statements interleaved.
InitConc == Quiet([th \in Threads |-> 1])

NextConc == \E th \in Threads : Call(th) \/ ExtractStep(th) \/ DeserializeStep(th)

SpecConc == InitConc /\ [][NextConc]_vars

(* ------------------------------- claims ------------------------------- *)

\* The call of thread th has completed.
Done(th) == pc[th] = <<>> /\ outcome[th].kind # "pending"

\* The call of SpecExtract has returned.
Returned == Done(1) /\ args[1].fn = "extract_tag_content"
text == args[1].text0
tag == args[1].tag
result == outcome[1].opt

\* The positions at which p occurs in s, and the least of a set of positions.
Occ(p, s) == {i \in 1..Len(s) : IsAt(p, s, i)}
Least(S) == CHOOSE x \in S : \A y \in S : x <= y
Greatest(S) == CHOOSE x \in S : \A y \in S : x >= y

\* The text after marker synthesis: an opening marker in front of a text
\* that has none, a closing marker behind a text that has none.
Synthesized(t, g) ==
    (IF Occ(OpenMarker(g), t) = {} THEN OpenMarker(g) ELSE <<>>)
    \o t \o
    (IF Occ(CloseMarker(g), t) = {} THEN CloseMarker(g) ELSE <<>>)

\* The contents of the non-overlapping spans of s from position p on: a span
\* starts at the next opening marker and ends at the first closing marker
\* that follows it.
RECURSIVE RefSpans(_, _, _)
RefSpans(g, s, p) ==
    LET starts == {i \in Occ(OpenMarker(g), s) : i >= p}
    IN  IF starts = {} THEN <<>>
        ELSE LET st == Least(starts) + Len(OpenMarker(g))
                 ends == {j \in Occ(CloseMarker(g), s) : j >= st}
             IN  IF ends = {} THEN <<>>
                 ELSE <<SubSeq(s, st, Least(ends) - 1)>>
                      \o RefSpans(g, s, Least(ends) + Len(CloseMarker(g)))

Spans(t, g) == RefSpans(g, Synthesized(t, g), 1)
NonEmptySpans(t, g) == SelectSeq(Spans(t, g), LAMBDA c : c # <<>>)

Reference(t, g) ==
    LET kept == NonEmptySpans(t, g)
    IN  IF kept = <<>> THEN None ELSE Some(kept[Len(kept)])

NoneIfEmpty(c) == IF c = <<>> THEN None ELSE Some(c)

\* C1: extract_tag_content(text, tag) is the content of the last non-empty
\* span of the text after marker synthesis, the spans being scanned left to
\* right, non-overlapping, each from an opening marker to the first closing
\* marker after it; it is None when no span has content.
C1_Reference == Returned => result = Reference(text, tag)

\* Two spans with different non-empty contents, one holding a newline; the
\* second is returned.
C1_Witness ==
    /\ Returned
    /\ Len(NonEmptySpans(text, tag)) = 2
    /\ NonEmptySpans(text, tag)[1] # NonEmptySpans(text, tag)[2]
    /\ result = Some(<<Newline>>)

\* C3: a text with neither marker is returned whole when it is not empty,
\* and gives None when it is empty.
C3_NoMarkers ==
    (Returned /\ ~Contains(OpenMarker(tag), text) /\ ~Contains(CloseMarker(tag), text))
        => result = NoneIfEmpty(text)

C3_Witness ==
    /\ Returned
    /\ ~Contains(OpenMarker(tag), text)
    /\ ~Contains(CloseMarker(tag), text)
    /\ Len(text) >= 3
    /\ result = Some(text)

\* C4: a text with an opening marker and no closing marker gives what
\* follows its first opening marker, up to its end, and None when nothing
\* follows.
C4_OnlyOpen ==
    (Returned /\ Contains(OpenMarker(tag), text) /\ ~Contains(CloseMarker(tag), text))
        => LET first == Least(Occ(OpenMarker(tag), text))
           IN  result = NoneIfEmpty(SubSeq(text, first + Len(OpenMarker(tag)), Len(text)))

\* An unclosed opening marker that is not at the start, with content after it.
C4_Witness ==
    /\ Returned
    /\ Contains(OpenMarker(tag), text)
    /\ ~Contains(CloseMarker(tag), text)
    /\ Least(Occ(OpenMarker(tag), text)) > 1
    /\ result.some
    /\ result.val = SubSeq(text, Least(Occ(OpenMarker(tag), text)) + Len(OpenMarker(tag)),
                           Len(text))

\* C5: a text with a closing marker and no opening marker gives what
\* precedes its first closing marker, and None when it starts with it.
C5_OnlyClose ==
    (Returned /\ ~Contains(OpenMarker(tag), text) /\ Contains(CloseMarker(tag), text))
        => LET first == Least(Occ(CloseMarker(tag), text))
           IN  result = NoneIfEmpty(SubSeq(text, 1, first - 1))

\* Content, a closing marker, and more text after it.
C5_Witness ==
    /\ Returned
    /\ ~Contains(OpenMarker(tag), text)
    /\ Contains(CloseMarker(tag), text)
    /\ Least(Occ(CloseMarker(tag), text)) + Len(CloseMarker(tag)) <= Len(text)
    /\ result.some
    /\ result.val = SubSeq(text, 1, Least(Occ(CloseMarker(tag), text)) - 1)

\* C6: the result is never the empty string; it is None exactly when no
\* span has content, also when spans without content exist.
C6_NeverEmpty ==
    Returned =>
        /\ result # Some(<<>>)
        /\ result.some => result.val # <<>>
        /\ ~result.some <=> \A i \in 1..Len(Spans(text, tag)) : Spans(text, tag)[i] = <<>>

\* Only spans without content, and None is returned.
C6_Witness ==
    /\ Returned
    /\ Len(Spans(text, tag)) >= 2
    /\ \A i \in 1..Len(Spans(text, tag)) : Spans(text, tag)[i] = <<>>
    /\ result = None

\* What follows the last opening marker of t: up to the first closing
\* marker after it, or to the end of t when it is unclosed.
AfterLastOpen(t, g) ==
    LET st == Greatest(Occ(OpenMarker(g), t)) + Len(OpenMarker(g))
        ends == {j \in Occ(CloseMarker(g), t) : j >= st}
    IN  SubSeq(t, st, IF ends = {} THEN Len(t) ELSE Least(ends) - 1)

\* C7 as stated: with two or more opening markers the result is the content
\* that follows the last opening marker, closed or not, empty or not.
C7_LastOccurrence ==
    (Returned /\ Cardinality(Occ(OpenMarker(tag), text)) >= 2)
        => result = NoneIfEmpty(AfterLastOpen(text, tag))

\* The last opening marker starts a span: it is closed, and each opening
\* marker before it has a closing marker between itself and the last one.
LastOpenStartsSpan(t, g) ==
    LET opens == Occ(OpenMarker(g), t)
        closes == Occ(CloseMarker(g), t)
        last == Greatest(opens)
    IN  /\ \E j \in closes : j > last
        /\ \A i \in opens \ {last} : \E j \in closes : i < j /\ j < last

\* C7, amended: with two or more opening markers, when the last opening
\* marker starts a span and that span has content, the result is that
\* content.
C7_LastSpan ==
    (/\ Returned
     /\ Cardinality(Occ(OpenMarker(tag), text)) >= 2
     /\ LastOpenStartsSpan(text, tag)
     /\ AfterLastOpen(text, tag) # <<>>)
        => result = Some(AfterLastOpen(text, tag))

\* Two closed occurrences with different contents; the second is returned.
C7_Witness ==
    /\ Returned
    /\ Cardinality(Occ(OpenMarker(tag), text)) = 2
    /\ LastOpenStartsSpan(text, tag)
    /\ Len(NonEmptySpans(text, tag)) = 2
    /\ NonEmptySpans(text, tag)[1] # AfterLastOpen(text, tag)
    /\ result = Some(AfterLastOpen(text, tag))

\* The three events of a failed deserialize call, in order, about error id.
FailureEvents(id) ==
    <<[ev |-> "validator_raised", id |-> id], [ev |-> "diagnostic", id |-> id],
      [ev |-> "propagated", id |-> id]>>

\* C2: when the validator rejects the value, the validator raises, then the
\* diagnostic naming that error is written, then the error reaches the
\* caller, and it is the validator's own error: the events of a call are
\* at every moment a prefix of that order, and a call whose value the
\* validator rejects ends with them all.
C2_LogThenPropagate ==
    \A th \in Threads :
        /\ events[th] # <<>> =>
              /\ events[th][1].ev = "validator_raised"
              /\ events[th] = SubSeq(FailureEvents(events[th][1].id), 1, Len(events[th]))
        /\ (Done(th) /\ args[th].fn = "deserialize"
                     /\ ~model_validate_json(args[th].object_type, args[th].value).ok) =>
              /\ outcome[th].kind = "raise"
              /\ outcome[th].err.kind =
                     model_validate_json(args[th].object_type, args[th].value).kind
              /\ events[th] = FailureEvents(outcome[th].err.id)
              /\ \E k \in 1..Len(stdout) : stdout[k] = Diagnostic(outcome[th].err)

\* A value that is no JSON has been rejected, logged and propagated.
C2_Witness ==
    /\ Done(1)
    /\ args[1].fn = "deserialize"
    /\ outcome[1].kind = "raise"
    /\ outcome[1].err.kind = "json_invalid"
    /\ Len(events[1]) = 3

\* C8: the diagnostics written are at every moment as many as the calls
\* that have failed, plus the one of a failing call that has printed and not
\* yet raised; so a call that returns writes nothing.  A call whose value
\* conforms returns the constructed object.
C8_DiagnosticOnFailureOnly ==
    /\ Len(stdout) = failures + (IF At(1, "raise") THEN 1 ELSE 0)
    /\ (Done(1) /\ args[1].fn = "deserialize"
                 /\ model_validate_json(args[1].object_type, args[1].value).ok) =>
          /\ outcome[1].kind = "return"
          /\ outcome[1].obj = model_validate_json(args[1].object_type, args[1].value).obj

\* A call returned {"a": 1} as an object after an earlier call had failed.
C8_Witness ==
    /\ Done(1)
    /\ args[1].fn = "deserialize"
    /\ outcome[1].kind = "return"
    /\ outcome[1].obj = [cls |-> "SchemaWithIntField", a |-> "1"]
    /\ failures = 1
    /\ Len(stdout) = 1

\* The arguments of two calls are the same.
SameArguments(a, b) ==
    /\ a.fn = b.fn
    /\ a.text0 = b.text0
    /\ a.tag = b.tag
    /\ a.value = b.value
    /\ a.object_type = b.object_type

\* C9: a call with the arguments of an earlier call ends as that call did
\* (the same value, or a ValidationError of the same kind), and the text a
\* call was given is never changed.
C9_NoHiddenState ==
    \A th \in Threads :
        /\ args[th].llm_response = args[th].text0
        /\ (Done(th) /\ earlier.set /\ SameArguments(earlier.args, args[th]))
              => Norm(outcome[th]) = earlier.outcome

\* The third call repeats the first, whose text got both markers added.
C9_Witness ==
    /\ Done(1)
    /\ budget[1] = 0
    /\ earlier.set
    /\ SameArguments(earlier.args, args[1])
    /\ args[1].fn = "extract_tag_content"
    /\ args[1].text0 = <<"t">>
    /\ frame[1].llm_response # args[1].text0
    /\ outcome[1].opt = Some(<<"t">>)

\* deserialize run without interruption, the exception's identity left out.
deserialize(value, object_type) ==
    LET r == model_validate_json(object_type, value)
    IN  IF r.ok THEN [Pending EXCEPT !.kind = "return", !.obj = r.obj]
        ELSE [Pending EXCEPT !.kind = "raise", !.err = [id |-> 0, kind |-> r.kind]]

\* What a call with arguments a gives when it runs alone.
Alone(a) ==
    IF a.fn = "deserialize" THEN deserialize(a.value, a.object_type)
    ELSE [Pending EXCEPT !.kind = "return", !.opt = extract_tag_content(a.text0, a.tag)]

\* C10: however the statements of several calls interleave, each call ends
\* as it does when run alone.
C10_Interleaved == \A th \in Threads : Done(th) => Norm(outcome[th]) = Alone(args[th])

\* Two calls of extract_tag_content, the second entered while the first was
\* running, both returned their texts' contents.
C10_Witness ==
    /\ Done(1)
    /\ Done(2)
    /\ args[2].overlapped
    /\ args[1].fn = "extract_tag_content"
    /\ args[2].fn = "extract_tag_content"
    /\ args[1].text0 # args[2].text0
    /\ outcome[1].opt.some
    /\ outcome[2].opt.some
    /\ earlier.args.text0 = args[2].text0

====
